---- MODULE Spec2Model ----
(***************************************************************************)
(* Model of package gh (src/gh/github.go): a client of a hosted            *)
(* source-control platform.  The platform (the go-github client and the    *)
(* REST service behind it) is the environment: each request the client     *)
(* issues is answered by one of the answers the platform can give.         *)
(*                                                                         *)
(* Go values: a pointer or interface value is a sequence, the nil one      *)
(* Nil = << >> and github.Ptr(v) = << v >>.  Dereferencing nil is a        *)
(* run-time panic: the call does not return.                               *)
(***************************************************************************)
EXTENDS Integers, Sequences, FiniteSets, TLC

(***************************************************************************)
(* Bounds of the model.                                                    *)
(***************************************************************************)
MaxLen == 2          \* longest plaintext secret, in bytes
MaxSeals == 3        \* sealings of one plaintext in the sealing-engine spec
MaxEph == 3          \* ephemeral private keys the random source can yield
NumKeys == 2         \* key pairs the platform rotates through
NumCallers == 2      \* concurrent callers of the secret flow
MaxCalls == 2        \* secret-provisioning calls started in one behaviour
MaxOps == 2          \* repository operations in one behaviour

Nil == << >>

Ptr(v) == << v >>

Deref(p) == p[1]

(***************************************************************************)
(* Byte strings and base64 (the API boundary of keys and ciphertexts).     *)
(* A base64 text is a sequence of sextets 0..63, B64Pad is the '='.        *)
(***************************************************************************)
B64Pad == 64

RECURSIVE B64Encode(_)
B64Encode(bs) ==
    IF Len(bs) = 0 THEN << >>
    ELSE IF Len(bs) = 1 THEN
        << bs[1] \div 4, (bs[1] % 4) * 16, B64Pad, B64Pad >>
    ELSE IF Len(bs) = 2 THEN
        << bs[1] \div 4, (bs[1] % 4) * 16 + bs[2] \div 16, (bs[2] % 16) * 4, B64Pad >>
    ELSE
        << bs[1] \div 4, (bs[1] % 4) * 16 + bs[2] \div 16,
           (bs[2] % 16) * 4 + bs[3] \div 64, bs[3] % 64 >>
        \o B64Encode(SubSeq(bs, 4, Len(bs)))

\* [ok |-> FALSE] for a text that is no base64, else the bytes.
RECURSIVE B64Decode(_)
B64Decode(s) ==
    IF Len(s) = 0 THEN [ok |-> TRUE, bytes |-> << >>]
    ELSE IF Len(s) < 4 \/ s[1] = B64Pad \/ s[2] = B64Pad THEN [ok |-> FALSE, bytes |-> << >>]
    ELSE IF s[3] = B64Pad THEN
        IF Len(s) = 4 /\ s[4] = B64Pad
        THEN [ok |-> TRUE, bytes |-> << s[1] * 4 + s[2] \div 16 >>]
        ELSE [ok |-> FALSE, bytes |-> << >>]
    ELSE IF s[4] = B64Pad THEN
        IF Len(s) = 4
        THEN [ok |-> TRUE,
              bytes |-> << s[1] * 4 + s[2] \div 16, (s[2] % 16) * 16 + s[3] \div 4 >>]
        ELSE [ok |-> FALSE, bytes |-> << >>]
    ELSE
        LET rest == B64Decode(SubSeq(s, 5, Len(s)))
        IN  [ok |-> rest.ok,
             bytes |-> << s[1] * 4 + s[2] \div 16, (s[2] % 16) * 16 + s[3] \div 4,
                          (s[3] % 4) * 64 + s[4] >> \o rest.bytes]

(***************************************************************************)
(* The sealed box of spec section 4.1 over a small Diffie-Hellman group:   *)
(* the public key of private key sk is Generator^sk mod GroupPrime, sent   *)
(* as KeySize bytes.                                                       *)
(***************************************************************************)
GroupPrime == 257
Generator == 3
KeySize == 2
TagSize == 1

RECURSIVE Pow(_, _)
Pow(b, e) == IF e = 0 THEN 1 ELSE (b * Pow(b, e - 1)) % GroupPrime

PublicOf(sk) == Pow(Generator, sk)

KeyBytes(x) == << x \div 256, x % 256 >>

KeyValue(bs) == bs[1] * 256 + bs[2]

RECURSIVE SumBytes(_)
SumBytes(bs) == IF Len(bs) = 0 THEN 0 ELSE bs[1] + SumBytes(Tail(bs))

Stream(shared, bs) == [i \in 1..Len(bs) |-> (bs[i] + shared + i) % 256]

Unstream(shared, cs) == [i \in 1..Len(cs) |-> (cs[i] + 512 - shared - i) % 256]

Tag(shared, cs) == (shared + SumBytes(cs)) % 256

SealSharedOwnKey(recipient, esk) == Pow(Generator, esk)

\* The shared key of one message: recipient public key ^ ephemeral private key.
SealShared(recipient, esk) == Pow(recipient, esk)

\* ephemeral public key ++ tag ++ encrypted bytes
SealAnonymous(recipient, plain, esk) ==
    LET shared == SealShared(recipient, esk)
        cs == Stream(shared, plain)
    IN  KeyBytes(PublicOf(esk)) \o << Tag(shared, cs) >> \o cs

\* The reference decryptor: the holder of private key sk opens a box.
OpenAnonymous(sk, box) ==
    IF Len(box) < KeySize + TagSize THEN [ok |-> FALSE, plain |-> << >>]
    ELSE LET shared == Pow(KeyValue(SubSeq(box, 1, KeySize)), sk)
             cs == SubSeq(box, KeySize + TagSize + 1, Len(box))
         IN  IF box[KeySize + 1] = Tag(shared, cs)
             THEN [ok |-> TRUE, plain |-> Unstream(shared, cs)]
             ELSE [ok |-> FALSE, plain |-> << >>]

\* gh.encryptSecret(publicKey, secretValue): esk is the fresh randomness drawn.
encryptSecret(publicKey, secretValue, esk) ==
    LET k == B64Decode(publicKey)
    IN  IF ~k.ok \/ Len(k.bytes) # KeySize
        THEN [ok |-> FALSE, val |-> << >>]
        ELSE [ok |-> TRUE,
              val |-> B64Encode(SealAnonymous(KeyValue(k.bytes), secretValue, esk))]

(***************************************************************************)
(* State.                                                                  *)
(***************************************************************************)
VARIABLES
    log,          \* gh.Logger: the debug records written so far
    platformKey,  \* platform: identifier of the repository's current key pair
    call,         \* CreateOrUpdateRepositorySecret: each caller's call in progress
    usedEph,      \* random source: the ephemeral private keys already drawn
    ncalls,       \* secret-provisioning calls started
    sealIn,       \* sealing engine: the recipient key and plaintext under test
    sealed,       \* sealing engine: the ciphertexts produced for sealIn
    repos,        \* platform: owner of each existing repository
    refs,         \* platform: commit of each branch of the repositories
    last,         \* the last repository operation: arguments, requests, result
    nops          \* repository operations performed

vars == << log, platformKey, call, usedEph, ncalls, sealIn, sealed, repos, refs, last, nops >>

secretVars == << platformKey, call, ncalls >>
sealVars == << sealIn, sealed >>
repoVars == << repos, refs, last, nops >>

(***************************************************************************)
(* Go strings that reach the sealing engine or the log of the secret flow  *)
(* are byte sequences.                                                     *)
(***************************************************************************)
SecretBytes == {115, 51}

Plaintexts == UNION {[1..n -> SecretBytes] : n \in 0..MaxLen}

SecretRepoNames == {<<114, 49>>}

SecretNames == {<<68, 84>>}

\* The plaintext values callers provision in the secret flow.
SecretValues == {<<115, 51>>}

Callers == 1..NumCallers

KeyIds == 1..NumKeys

EphKeys == 1..MaxEph

\* The platform's private key of key pair id.
PrivateKey(id) == id + 4

\* The Key field of the platform's PublicKey resource: base64 of the key bytes.
EncodedKey(id) == B64Encode(KeyBytes(PublicOf(PrivateKey(id))))

Attr(k, v) == << k, v >>

Record(msg, attrs) == [msg |-> msg, attrs |-> attrs]

(***************************************************************************)
(* Answers of Actions.GetRepoPublicKey: (nil, err) on any failure, else    *)
(* the current key pair's identifier and key together; the key text the    *)
(* platform sends may fail to decode to KeySize bytes.                     *)
(***************************************************************************)
PublicKeyAnswers ==
    { [key |-> Nil, err |-> TRUE],
      [key |-> Ptr([KeyID |-> Ptr(platformKey), Key |-> Ptr(EncodedKey(platformKey))]),
       err |-> FALSE],
      [key |-> Ptr([KeyID |-> Ptr(platformKey), Key |-> Ptr(B64Encode(<< 7 >>))]),
       err |-> FALSE] }

IdleCall ==
    [pc |-> "idle", repoName |-> << >>, secretName |-> << >>, secretValue |-> << >>,
     key |-> Nil, fetched |-> Nil, fetchErr |-> FALSE, sealKey |-> Nil, encryptedSecret |-> << >>,
     request |-> Nil, trace |-> << >>, ret |-> "none"]

\* line 165
LogSecretStart(repoName, secretName, secretValue) ==
    Record("creating or updating repository secret",
           << Attr("repo name", repoName), Attr("secret name", secretName) >>)

\* line 168
LogKeyError(repoName, secretName, secretValue) ==
    Record("error getting repository public key", << Attr("repo name", repoName) >>)

LogEncryptErrorLeak(repoName, secretName, secretValue) ==
    Record("error encrypting secret",
           << Attr("repo name", repoName), Attr("secret name", secretName),
              Attr("secret value", secretValue) >>)

\* line 173
LogEncryptError(repoName, secretName, secretValue) ==
    Record("error encrypting secret",
           << Attr("repo name", repoName), Attr("secret name", secretName) >>)

\* line 184
LogSubmitError(repoName, secretName, secretValue) ==
    Record("error creating or updating repo secret",
           << Attr("repo name", repoName), Attr("secret name", secretName) >>)

SecretRequestCurrentKey(c) ==
    Ptr([Name |-> c.secretName, KeyID |-> platformKey,
         EncryptedValue |-> c.encryptedSecret])

\* lines 177-181: the EncryptedSecret submitted, built from the call's locals
SecretRequest(c) ==
    Ptr([Name |-> c.secretName, KeyID |-> Deref(Deref(c.key).KeyID),
         EncryptedValue |-> c.encryptedSecret])

(***************************************************************************)
(* CreateOrUpdateRepositorySecret, lines 164-189, one step per platform    *)
(* request so that concurrent calls interleave.                            *)
(***************************************************************************)
\* lines 165-169: log, fetch the key; a failed fetch is logged and not returned
SecretFetch(c, repoName, secretName, secretValue, ans) ==
    /\ call[c].pc = "idle"
    /\ ncalls < MaxCalls
    /\ ncalls' = ncalls + 1
    /\ call' = [call EXCEPT ![c] =
                  [IdleCall EXCEPT !.pc = "fetched", !.repoName = repoName,
                                   !.secretName = secretName, !.secretValue = secretValue,
                                   !.key = ans.key, !.fetched = ans.key,
                                   !.fetchErr = ans.err,
                                   !.trace = << "fetch" >>]]
    /\ log' = log \o << LogSecretStart(repoName, secretName, secretValue) >>
                  \o (IF ans.err
                      THEN << LogKeyError(repoName, secretName, secretValue) >>
                      ELSE << >>)
    /\ UNCHANGED << platformKey, usedEph, sealVars, repoVars >>

\* line 171, *key.Key with key = nil: the call panics before encryptSecret runs
SecretSealPanic(c) ==
    /\ call[c].pc = "fetched"
    /\ call[c].key = Nil
    /\ call' = [call EXCEPT ![c].pc = "idle", ![c].ret = "panic"]
    /\ UNCHANGED << log, platformKey, usedEph, ncalls, sealVars, repoVars >>

\* lines 171-175: seal the plaintext with the fetched key
SecretSeal(c, esk) ==
    /\ call[c].pc = "fetched"
    /\ call[c].key # Nil
    /\ esk \notin usedEph
    /\ LET r == encryptSecret(Deref(Deref(call[c].key).Key), call[c].secretValue, esk)
       IN  /\ call' = [call EXCEPT
                         ![c].sealKey = Deref(Deref(call[c].key).Key),
                         ![c].trace = @ \o << "seal" >>,
                         ![c].encryptedSecret = r.val,
                         ![c].pc = IF r.ok THEN "sealed" ELSE "idle",
                         ![c].ret = IF r.ok THEN "none" ELSE "err"]
           /\ usedEph' = IF r.ok THEN usedEph \cup {esk} ELSE usedEph
           /\ log' = IF r.ok THEN log
                     ELSE log \o << LogEncryptError(call[c].repoName, call[c].secretName,
                                                    call[c].secretValue) >>
    /\ UNCHANGED << platformKey, ncalls, sealVars, repoVars >>

\* lines 177-188: submit the secret; ok says whether the platform accepted it
SecretSubmit(c, ok) ==
    /\ call[c].pc = "sealed"
    /\ call' = [call EXCEPT
                  ![c].request = SecretRequest(call[c]),
                  ![c].trace = @ \o << "submit" >>,
                  ![c].pc = "idle",
                  ![c].ret = IF ok THEN "nil" ELSE "err"]
    /\ log' = IF ok THEN log
              ELSE log \o << LogSubmitError(call[c].repoName, call[c].secretName,
                                            call[c].secretValue) >>
    /\ UNCHANGED << platformKey, usedEph, ncalls, sealVars, repoVars >>

\* The platform replaces the repository's key pair.
RotateKey ==
    /\ \E id \in KeyIds \ {platformKey} : platformKey' = id
    /\ UNCHANGED << log, call, usedEph, ncalls, sealVars, repoVars >>

CreateOrUpdateRepositorySecret ==
    \E c \in Callers :
        \/ \E r \in SecretRepoNames, n \in SecretNames, v \in SecretValues,
              ans \in PublicKeyAnswers : SecretFetch(c, r, n, v, ans)
        \/ SecretSealPanic(c)
        \/ \E esk \in EphKeys : SecretSeal(c, esk)
        \/ \E ok \in BOOLEAN : SecretSubmit(c, ok)

(***************************************************************************)
(* The platform as seen through go-github: every call yields a value, a    *)
(* response and an error.  With no response at all (a transport failure)   *)
(* the response is nil; with a status outside 2xx the value is nil and the *)
(* error is a *github.ErrorResponse.  NoStatus stands for "no response".   *)
(***************************************************************************)
NoStatus == 0

AuthUser == "alice"

Owners == {"alice", "acme"}

Organizations == {"", "acme"}

RepoNames == {"r1", "r2"}

BranchNames == {"main", "dev"}

PlatformDefaultBranch == "main"

FirstCommit == "c1"

NextCommit == "c2"

IsSuccess(status) == 200 <= status /\ status <= 299

ErrorResponse(status) == Ptr([type |-> "*github.ErrorResponse", StatusCode |-> status])

TransportError == Ptr([type |-> "*url.Error"])

Response(status) == Ptr([StatusCode |-> status])

Answer(status, val) ==
    IF status = NoStatus THEN [val |-> Nil, res |-> Nil, err |-> TransportError]
    ELSE IF IsSuccess(status) THEN [val |-> Ptr(val), res |-> Response(status), err |-> Nil]
    ELSE [val |-> Nil, res |-> Response(status), err |-> ErrorResponse(status)]

\* fmt.Errorf(format, err) with a format that has no verb: a new error whose text
\* carries err's text as an EXTRA argument and that does not wrap err.
Errorf(format, err) ==
    Ptr([type |-> "*errors.errorString", s |-> << format, "%!(EXTRA", Deref(err) >>])

RefName(branch) == << "refs/heads/", branch >>

Return(val, err, logs, requests) ==
    [kind |-> "return", val |-> val, err |-> err, logs |-> logs, requests |-> requests]

Panic(logs, requests) ==
    [kind |-> "panic", val |-> Nil, err |-> Nil, logs |-> logs, requests |-> requests]

(***************************************************************************)
(* GetRepository, lines 21-33.                                             *)
(***************************************************************************)
RepoExists(owner, name) == << owner, name >> \in repos

RepoGetStatuses(owner, name) ==
    {NoStatus, 500} \cup (IF RepoExists(owner, name) THEN {200} ELSE {404})

\* The Repository resource; the default_branch field may be missing.
RepoResource(owner, name, withDefault) ==
    [Owner |-> owner, Name |-> Ptr(name),
     DefaultBranch |-> IF withDefault THEN Ptr(PlatformDefaultBranch) ELSE Nil]

RepoGetAnswers(owner, name) ==
    {Answer(st, RepoResource(owner, name, d)) :
        st \in RepoGetStatuses(owner, name), d \in BOOLEAN}

RepoGetRequest(owner, name) ==
    [api |-> "Repositories.Get", owner |-> owner, repo |-> name]

GetRepositoryCall(owner, name, ans) ==
    LET who == << Attr("owner", owner), Attr("repo name", name) >>
        start == << Record("get repository", who) >>
        reqs == << RepoGetRequest(owner, name) >>
    IN  IF ans.res = Nil THEN Panic(start, reqs)                      \* line 24
        ELSE LET logs == start \o (IF Deref(ans.res).StatusCode = 404
                                   THEN << Record("repository not found", who) >>
                                   ELSE << >>)
             IN  IF ans.err # Nil
                 THEN Return(Nil,
                             Errorf(<< "error getting repository", owner, name >>, ans.err),
                             logs, reqs)
                 ELSE Return(ans.val, Nil, logs, reqs)

Finished(op, args, answers, out) ==
    [op |-> op, args |-> args, answers |-> answers, requests |-> out.requests,
     kind |-> out.kind, val |-> out.val, err |-> out.err]

GetRepository(owner, name, ans) ==
    /\ nops < MaxOps
    /\ LET out == GetRepositoryCall(owner, name, ans)
       IN  /\ last' = Finished("GetRepository", [owner |-> owner, name |-> name],
                               << ans >>, out)
           /\ log' = log \o out.logs
    /\ nops' = nops + 1
    /\ UNCHANGED << repos, refs, usedEph, secretVars, sealVars >>

(***************************************************************************)
(* CreateRepository, lines 45-70.                                          *)
(***************************************************************************)
\* Repositories.Create(ctx, org, repo): POST /orgs/{org}/repos, or /user/repos
\* when org is empty.
RepoCreateRequest(org, body) ==
    [api |-> "Repositories.Create",
     path |-> IF org = "" THEN << "user", "repos" >> ELSE << "orgs", org, "repos" >>,
     body |-> body]

\* The account a create request creates the repository under.
RequestOwner(req) == IF req.path[1] = "user" THEN AuthUser ELSE req.path[2]

\* lines 47-58: the request CreateRepository issues
CreateRepositoryRequest(organization, name) ==
    RepoCreateRequest("",
        [Name |-> Ptr(name), Private |-> Ptr(FALSE), HasIssues |-> Ptr(TRUE),
         HasProjects |-> Ptr(FALSE), HasWiki |-> Ptr(FALSE), AutoInit |-> Ptr(TRUE),
         HasDiscussions |-> Ptr(TRUE), DeleteBranchOnMerge |-> Ptr(TRUE),
         UseSquashPRTitleAsDefault |-> Ptr(TRUE), AllowForking |-> Ptr(TRUE)])

RepoCreateStatuses(req) ==
    {NoStatus, 500} \cup
    (IF RepoExists(RequestOwner(req), Deref(req.body.Name)) THEN {422} ELSE {201})

CreateRepositoryCall(organization, name, ans) ==
    LET who == << Attr("organization", organization), Attr("name", name) >>
        start == << Record("creating repository", who) >>
        reqs == << CreateRepositoryRequest(organization, name) >>
    IN  IF ans.res = Nil THEN Panic(start, reqs)                      \* line 60
        ELSE LET logs == start \o (IF Deref(ans.res).StatusCode = 422
                                   THEN << Record("validation failed", who) >>
                                   ELSE << >>)
             IN  IF ans.err # Nil
                 THEN Return(Nil, ans.err,
                             logs \o << Record("error creating repository", who) >>, reqs)
                 ELSE Return(ans.val, Nil, logs, reqs)

CreateRepository(organization, name, status) ==
    /\ nops < MaxOps
    /\ LET req == CreateRepositoryRequest(organization, name)
           owner == RequestOwner(req)
           ans == Answer(status, RepoResource(owner, Deref(req.body.Name), TRUE))
           out == CreateRepositoryCall(organization, name, ans)
       IN  /\ status \in RepoCreateStatuses(req)
           /\ last' = Finished("CreateRepository",
                               [organization |-> organization, name |-> name],
                               << ans >>, out)
           /\ log' = log \o out.logs
           /\ repos' = IF IsSuccess(status)
                       THEN repos \cup {<< owner, Deref(req.body.Name) >>}
                       ELSE repos
           /\ refs' = IF IsSuccess(status)
                      THEN refs \cup {[owner |-> owner, repo |-> Deref(req.body.Name),
                                       branch |-> PlatformDefaultBranch,
                                       sha |-> FirstCommit]}
                      ELSE refs
    /\ nops' = nops + 1
    /\ UNCHANGED << usedEph, secretVars, sealVars >>

(***************************************************************************)
(* CreateBranch, lines 75-103.                                             *)
(***************************************************************************)
RefExists(owner, name, branch) ==
    \E r \in refs : r.owner = owner /\ r.repo = name /\ r.branch = branch

Tip(owner, name, branch) ==
    IF RefExists(owner, name, branch)
    THEN (CHOOSE r \in refs : r.owner = owner /\ r.repo = name /\ r.branch = branch).sha
    ELSE ""

\* The Reference resource.
RefResource(ref, sha) == [Ref |-> Ptr(ref), Object |-> Ptr([SHA |-> Ptr(sha)])]

GetRefStatuses(owner, name, branch) ==
    {NoStatus} \cup (IF RefExists(owner, name, branch) THEN {200} ELSE {404})

GetRefAnswers(owner, name, branch) ==
    {Answer(st, RefResource(RefName(branch), Tip(owner, name, branch))) :
        st \in GetRefStatuses(owner, name, branch)}

CreateRefStatuses(owner, name, branch) ==
    {NoStatus} \cup
    (IF RepoExists(owner, name) /\ ~RefExists(owner, name, branch) THEN {201} ELSE {422})

GetRefRequest(owner, name, ref) ==
    [api |-> "Git.GetRef", owner |-> owner, repo |-> name, ref |-> ref]

\* lines 90-95: the new reference, at the SHA of the reference just read
CreateRefRequest(owner, name, branchName, ref) ==
    [api |-> "Git.CreateRef", owner |-> owner, repo |-> name,
     body |-> [Ref |-> Ptr(RefName(branchName)),
               Object |-> Ptr([SHA |-> Deref(Deref(ref).Object).SHA])]]

\* a1, a2: the answers to the repository lookup and to GetRef; st3: the status
\* of the answer to CreateRef.
CreateBranchCall(owner, repoName, branchName, a1, a2, st3) ==
    LET who == << Attr("owner", owner), Attr("repo name", repoName) >>
        start == << Record("creating branch",
                           who \o << Attr("branch name", branchName) >>) >>
        o1 == GetRepositoryCall(owner, repoName, a1)
        logs1 == start \o o1.logs
    IN  IF o1.kind = "panic" THEN Panic(logs1, o1.requests)
        ELSE IF o1.err # Nil
        THEN Return(Nil, o1.err, logs1 \o << Record("error getting repository", who) >>,
                    o1.requests)
        ELSE IF Deref(o1.val).DefaultBranch = Nil
        THEN Panic(logs1, o1.requests)                                \* line 83
        ELSE
        LET def == Deref(Deref(o1.val).DefaultBranch)
            whoDef == who \o << Attr("default branch name", def) >>
            logs2 == logs1 \o
                     << Record("getting latest reference from default branch", whoDef) >>
            reqs2 == o1.requests \o << GetRefRequest(owner, repoName, RefName(def)) >>
        IN  IF a2.err # Nil
            THEN Return(Nil, a2.err,
                        logs2 \o << Record("error getting latest reference from default branch",
                                           whoDef) >>,
                        reqs2)
            ELSE
            LET req == CreateRefRequest(owner, repoName, branchName, a2.val)
                a3 == Answer(st3, req.body)
                reqs3 == reqs2 \o << req >>
            IN  IF a3.err # Nil
                THEN Return(Nil, a3.err,
                            logs2 \o << Record("error creating new branch",
                                               who \o << Attr("new branch name",
                                                              branchName) >>) >>,
                            reqs3)
                ELSE Return(a3.val, Nil, logs2, reqs3)

CreateBranch(owner, repoName, branchName, a1, a2, st3) ==
    /\ nops < MaxOps
    /\ LET out == CreateBranchCall(owner, repoName, branchName, a1, a2, st3)
           created == Len(out.requests) = 3 /\ out.kind = "return" /\ out.err = Nil
       IN  /\ last' = Finished("CreateBranch",
                               [owner |-> owner, repoName |-> repoName,
                                branchName |-> branchName],
                               SubSeq(<< a1, a2 >>, 1,
                                      IF Len(out.requests) < 2 THEN Len(out.requests) ELSE 2),
                               out)
           /\ log' = log \o out.logs
           /\ refs' = IF created
                      THEN refs \cup {[owner |-> owner, repo |-> repoName,
                                       branch |-> branchName,
                                       sha |-> Deref(Deref(out.requests[3].body.Object).SHA)]}
                      ELSE refs
    /\ nops' = nops + 1
    /\ UNCHANGED << repos, usedEph, secretVars, sealVars >>

\* The platform: a commit is pushed to a repository's default branch.
Push ==
    /\ \E r \in refs :
          /\ r.branch = PlatformDefaultBranch
          /\ r.sha = FirstCommit
          /\ refs' = (refs \ {r}) \cup {[r EXCEPT !.sha = NextCommit]}
    /\ UNCHANGED << log, repos, last, nops, usedEph, secretVars, sealVars >>

(***************************************************************************)
(* CreateOrUpdateFile, lines 109-124.                                      *)
(***************************************************************************)
FilePaths == {"README.md"}

FileShas == {"", "f1"}

FileContents == {<< 104, 105 >>}

\* lines 111-116: the RepositoryContentFileOptions handed to CreateFile
FileOptions(commitMessage, fileContent, replacingFileSHA, branch) ==
    [message |-> Ptr(commitMessage), content |-> fileContent,
     sha |-> Ptr(replacingFileSHA), branch |-> Ptr(branch)]

\* The JSON body of RepositoryContentFileOptions: content always, as base64;
\* message, sha and branch are omitempty pointers, present unless nil.
FileOptionsJSON(opts) ==
    [f \in {"content"} \cup {g \in {"message", "sha", "branch"} : opts[g] # Nil} |->
        IF f = "content" THEN B64Encode(opts.content) ELSE Deref(opts[f])]

FileRequest(owner, repoName, filePath, opts) ==
    [api |-> "Repositories.CreateFile", owner |-> owner, repo |-> repoName,
     path |-> filePath, body |-> FileOptionsJSON(opts)]

FileStatuses == {NoStatus, 201, 409}

CreateOrUpdateFileCall(owner, repoName, branch, commitMessage, filePath, replacingFileSHA, fileContent, ans) ==
    LET who == << Attr("repo name", repoName), Attr("branch name", branch),
                  Attr("file path", filePath) >>
        start == << Record("creating file", who) >>
        reqs == << FileRequest(owner, repoName, filePath,
                               FileOptions(commitMessage, fileContent,
                                           replacingFileSHA, branch)) >>
    IN  IF ans.err # Nil
        THEN Return(Nil, ans.err, start \o << Record("error creating file", who) >>, reqs)
        ELSE Return(ans.val, Nil, start, reqs)

CreateOrUpdateFile(owner, repoName, branch, filePath, replacingFileSHA, fileContent, status) ==
    /\ nops < MaxOps
    /\ LET ans == Answer(status, [path |-> filePath])
           out == CreateOrUpdateFileCall(owner, repoName, branch, "commit", filePath,
                                         replacingFileSHA, fileContent, ans)
       IN  /\ last' = Finished("CreateOrUpdateFile",
                               [owner |-> owner, repoName |-> repoName, branch |-> branch,
                                filePath |-> filePath,
                                replacingFileSHA |-> replacingFileSHA,
                                fileContent |-> fileContent],
                               << ans >>, out)
           /\ log' = log \o out.logs
    /\ nops' = nops + 1
    /\ UNCHANGED << repos, refs, usedEph, secretVars, sealVars >>

(***************************************************************************)
(* GetRepositoryContent, lines 130-146.                                    *)
(***************************************************************************)
ContentPaths == {"README.md"}

\* Answers of Repositories.GetContents: a file, a directory listing, or neither.
ContentAnswers ==
    { [file |-> Nil, dir |-> << >>, res |-> Nil, err |-> TransportError],
      [file |-> Ptr([path |-> "README.md"]), dir |-> << >>, res |-> Response(200),
       err |-> Nil],
      [file |-> Nil, dir |-> << [path |-> "README.md"] >>, res |-> Response(200),
       err |-> Nil] }
    \cup { [file |-> Nil, dir |-> << >>, res |-> Response(st), err |-> ErrorResponse(st)] :
              st \in {403, 404, 500} }

ContentErrorAlways(ans) == ans.err # Nil

\* line 140: the condition under which the error is returned
ContentError(ans) == ans.err # Nil /\ Deref(ans.res).StatusCode # 404

ContentRequest(owner, repoName, path, ref) ==
    [api |-> "Repositories.GetContents", owner |-> owner, repo |-> repoName,
     path |-> path, ref |-> ref]

GetRepositoryContentCall(owner, repoName, path, ref, ans) ==
    LET who == << Attr("repo name", repoName), Attr("ref", ref), Attr("path", path) >>
        start == << Record("getting repository content", who) >>
        reqs == << ContentRequest(owner, repoName, path, ref) >>
    IN  IF ans.res = Nil THEN Panic(start, reqs)                      \* line 136
        ELSE LET logs == start \o (IF Deref(ans.res).StatusCode = 404
                                   THEN << Record("file/path not found", who) >>
                                   ELSE << >>)
             IN  IF ContentError(ans)
                 THEN Return([file |-> Nil, dir |-> << >>], ans.err,
                             logs \o << Record("error getting repository content", who) >>,
                             reqs)
                 ELSE Return([file |-> ans.file, dir |-> ans.dir], Nil, logs, reqs)

GetRepositoryContent(owner, repoName, path, ref, ans) ==
    /\ nops < MaxOps
    /\ LET out == GetRepositoryContentCall(owner, repoName, path, ref, ans)
       IN  /\ last' = Finished("GetRepositoryContent",
                               [owner |-> owner, repoName |-> repoName, path |-> path,
                                ref |-> ref],
                               << ans >>, out)
           /\ log' = log \o out.logs
    /\ nops' = nops + 1
    /\ UNCHANGED << repos, refs, usedEph, secretVars, sealVars >>

(***************************************************************************)
(* The sealing engine on its own: one plaintext sealed repeatedly for one  *)
(* recipient key, each time with fresh randomness.                         *)
(***************************************************************************)
Seal(esk) ==
    /\ Len(sealed) < MaxSeals
    /\ esk \notin usedEph
    /\ LET r == encryptSecret(EncodedKey(sealIn.key), sealIn.plain, esk)
       IN  /\ r.ok
           /\ sealed' = Append(sealed, r.val)
    /\ usedEph' = usedEph \cup {esk}
    /\ UNCHANGED << log, sealIn, secretVars, repoVars >>

(***************************************************************************)
(* Specifications.                                                         *)
(***************************************************************************)
NoOperation ==
    [op |-> "none", args |-> << >>, answers |-> << >>, requests |-> << >>,
     kind |-> "none", val |-> Nil, err |-> Nil]

QuietSecret ==
    /\ call = [c \in Callers |-> IdleCall]
    /\ ncalls = 0

QuietSeal ==
    /\ sealed = << >>

QuietRepo ==
    /\ repos = {<< AuthUser, "r1" >>}
    /\ refs = {[owner |-> AuthUser, repo |-> "r1", branch |-> PlatformDefaultBranch,
                sha |-> FirstCommit]}
    /\ last = NoOperation
    /\ nops = 0

InitSecret ==
    /\ log = << >>
    /\ usedEph = {}
    /\ platformKey \in KeyIds
    /\ sealIn = [key |-> 1, plain |-> << >>]
    /\ QuietSecret /\ QuietSeal /\ QuietRepo

InitSeal ==
    /\ log = << >>
    /\ usedEph = {}
    /\ platformKey = 1
    /\ sealIn \in [key : KeyIds, plain : Plaintexts]
    /\ QuietSecret /\ QuietSeal /\ QuietRepo

InitRepo ==
    /\ log = << >>
    /\ usedEph = {}
    /\ platformKey = 1
    /\ sealIn = [key |-> 1, plain |-> << >>]
    /\ QuietSecret /\ QuietSeal /\ QuietRepo

NextSecret ==
    \/ CreateOrUpdateRepositorySecret
    \/ RotateKey

NextSeal == \E esk \in EphKeys : Seal(esk)

NextRepo ==
    \/ \E o \in Owners, n \in RepoNames :
          \E ans \in RepoGetAnswers(o, n) : GetRepository(o, n, ans)
    \/ \E org \in Organizations, n \in RepoNames, st \in {NoStatus, 201, 422, 500} :
          CreateRepository(org, n, st)
    \/ \E o \in Owners, n \in {"r1"}, b \in BranchNames :
          \E a1 \in RepoGetAnswers(o, n), a2 \in GetRefAnswers(o, n, PlatformDefaultBranch),
             st3 \in CreateRefStatuses(o, n, b) : CreateBranch(o, n, b, a1, a2, st3)
    \/ \E o \in {AuthUser}, n \in {"r1"}, b \in {PlatformDefaultBranch}, f \in FilePaths,
          sha \in FileShas, c \in FileContents, st \in FileStatuses :
          CreateOrUpdateFile(o, n, b, f, sha, c, st)
    \/ \E o \in {AuthUser}, n \in {"r1"}, path \in ContentPaths, ans \in ContentAnswers :
          GetRepositoryContent(o, n, path, PlatformDefaultBranch, ans)
    \/ Push

SpecSecret == InitSecret /\ [][NextSecret]_vars

SpecSeal == InitSeal /\ [][NextSeal]_vars

SpecRepo == InitRepo /\ [][NextRepo]_vars

(***************************************************************************)
(* Properties of the secret-provisioning flow (SpecSecret).                *)
(***************************************************************************)
Ended(c) == call[c].pc = "idle" /\ call[c].ret # "none"

\* C1: whenever the public-key fetch of a call fails, the call returns an error
\* and invokes neither the sealing step nor the submission step.
C1_FetchFailureAborts ==
    \A c \in Callers :
        (Ended(c) /\ call[c].fetchErr) =>
            /\ call[c].ret = "err"
            /\ call[c].trace = << "fetch" >>

\* C2: a call that reached the submission step did key-fetch, sealing, submission
\* in that order, sealed with the key and submitted the key identifier that its
\* own key-fetch returned together, whatever other calls and the platform did.
C2_SubmitUsesFetchedPair ==
    \A c \in Callers :
        call[c].request # Nil =>
            /\ call[c].trace = << "fetch", "seal", "submit" >>
            /\ ~call[c].fetchErr
            /\ call[c].fetched # Nil
            /\ Deref(call[c].request).KeyID = Deref(Deref(call[c].fetched).KeyID)
            /\ call[c].sealKey = Deref(Deref(call[c].fetched).Key)
            /\ Deref(call[c].request).EncryptedValue = call[c].encryptedSecret

\* A call submitted after the platform replaced the key it had fetched, while
\* another call was between its sealing and its submission.
C2_Witness ==
    \E c, d \in Callers :
        /\ c # d
        /\ call[c].request # Nil
        /\ Deref(call[c].request).KeyID # platformKey
        /\ call[d].pc = "sealed"

\* C7: no log record of the secret flow carries a plaintext secret value; the
\* records carry only the repository name and the secret name.
C7_NoPlaintextLogged ==
    \A i \in 1..Len(log) :
        \A j \in 1..Len(log[i].attrs) :
            LET a == log[i].attrs[j]
            IN  /\ \/ a[1] = "repo name" /\ a[2] \in SecretRepoNames
                   \/ a[1] = "secret name" /\ a[2] \in SecretNames
                /\ a[2] \notin SecretValues

\* One call failed at the sealing step and one at the submission step, each with
\* a plaintext to leak.
C7_Witness ==
    /\ \E i \in 1..Len(log) : log[i].msg = "error encrypting secret"
    /\ \E c \in Callers :
          /\ call[c].ret = "err"
          /\ call[c].trace = << "fetch", "seal", "submit" >>
          /\ Len(call[c].secretValue) > 0

(***************************************************************************)
(* Properties of the sealing engine (SpecSeal).                            *)
(***************************************************************************)
\* C3: the ciphertexts of one plaintext under one recipient key are pairwise
\* different, and the holder of the matching private key recovers exactly the
\* plaintext from each of them.
C3_SealFreshAndOpens ==
    /\ \A i, j \in 1..Len(sealed) : i # j => sealed[i] # sealed[j]
    /\ \A i \in 1..Len(sealed) :
          LET box == B64Decode(sealed[i])
              opened == OpenAnonymous(PrivateKey(sealIn.key), box.bytes)
          IN  /\ box.ok
              /\ opened.ok
              /\ opened.plain = sealIn.plain

\* A non-empty plaintext was sealed at least twice under the same key.
C3_Witness ==
    /\ Len(sealed) >= 2
    /\ Len(sealIn.plain) = MaxLen

(***************************************************************************)
(* Properties of the repository operations (SpecRepo).                     *)
(***************************************************************************)
HasResponse(ans) == ans.res # Nil

StatusOf(ans) == Deref(ans.res).StatusCode

\* C4: CreateBranch issues the create-ref request only after the lookup and the
\* default-branch ref succeeded, for refs/heads/<branchName> at exactly the SHA
\* read; when the lookup fails, the default branch name is absent or the ref is
\* not resolved, it returns an error and issues no create-ref request.
C4_BranchNeedsResolvedSha ==
    last.op = "CreateBranch" =>
        LET lookupOk == last.answers[1].err = Nil
            defaultOk == lookupOk /\ Deref(last.answers[1].val).DefaultBranch # Nil
            refOk == defaultOk /\ Len(last.answers) >= 2 /\ last.answers[2].err = Nil
            creates == {i \in 1..Len(last.requests) : last.requests[i].api = "Git.CreateRef"}
        IN  /\ \A i \in creates :
                  /\ refOk
                  /\ i = 3
                  /\ last.requests[i].body.Ref = Ptr(RefName(last.args.branchName))
                  /\ Deref(last.requests[i].body.Object).SHA
                        = Deref(Deref(last.answers[2].val).Object).SHA
            /\ ~refOk => /\ last.kind = "return"
                         /\ last.err # Nil
                         /\ creates = {}

\* C5: GetRepositoryContent returns a nil error, no file and no directory when
\* the platform answers 404, and a non-nil error on any other non-2xx answer.
C5_ContentNotFoundIsNoError ==
    (last.op = "GetRepositoryContent" /\ HasResponse(last.answers[1])) =>
        LET st == StatusOf(last.answers[1])
        IN  /\ st = 404 => /\ last.kind = "return"
                           /\ last.err = Nil
                           /\ last.val.file = Nil
                           /\ last.val.dir = << >>
            /\ (~IsSuccess(st) /\ st # 404) => /\ last.kind = "return"
                                               /\ last.err # Nil

\* The platform answered a content read with 404.
C5_Witness ==
    /\ last.op = "GetRepositoryContent"
    /\ HasResponse(last.answers[1])
    /\ StatusOf(last.answers[1]) = 404
    /\ last.kind = "return"

\* C6: the outcome of GetRepository on a 404 answer differs, in what the caller
\* can test (how the call ended, the value, the error's type and the status
\* errors.As finds in it), from its outcome on every other failure.
C6_NotFoundDistinct ==
    (last.op = "GetRepository" /\ HasResponse(last.answers[1])
        /\ StatusOf(last.answers[1]) = 404) =>
        LET View(kind, val, err) ==
                [kind |-> kind, value |-> val # Nil, failed |-> err # Nil,
                 type |-> IF err = Nil THEN "" ELSE Deref(err).type,
                 status |-> IF err # Nil /\ Deref(err).type = "*github.ErrorResponse"
                            THEN Deref(err).StatusCode ELSE NoStatus]
            Other(st) == GetRepositoryCall(last.args.owner, last.args.name,
                                           Answer(st, << >>))
        IN  \A st \in {NoStatus, 403, 422, 500} :
                View(last.kind, last.val, last.err)
                    # View(Other(st).kind, Other(st).val, Other(st).err)

\* C8: the write request of CreateOrUpdateFile carries a sha field exactly when
\* the caller supplied a replacing SHA.
C8_ShaOnlyOnUpdate ==
    last.op = "CreateOrUpdateFile" =>
        (("sha" \in DOMAIN last.requests[1].body) <=> (last.args.replacingFileSHA # ""))

\* C9: CreateRepository creates the repository under the named organization, or
\* under the authenticated user when the organization is empty.
C9_CreatedUnderOrganization ==
    (last.op = "CreateRepository" /\ last.kind = "return" /\ last.err = Nil) =>
        LET owner == IF last.args.organization = "" THEN AuthUser
                     ELSE last.args.organization
        IN  /\ RequestOwner(last.requests[1]) = owner
            /\ << owner, last.args.name >> \in repos

\* C10: GetRepository, CreateRepository and GetRepositoryContent return an error
\* when the platform request yields no response, without reading the status of
\* the absent response.
C10_NoResponseReturnsError ==
    (last.op \in {"GetRepository", "CreateRepository", "GetRepositoryContent"}
        /\ ~HasResponse(last.answers[1])) =>
        /\ last.kind = "return"
        /\ last.err # Nil

====
